---- MODULE Spec2Model ----
(***************************************************************************)
(* A model of the data-access layer of caisse_noire:                       *)
(*   - src/src/database/postgres.rs : DbError, the two From conversions,   *)
(*     init_db_connection and the DbConnection handle;                     *)
(*   - src/src/users/postgres.rs    : the UsersDb repository on a handle;  *)
(*   - src/src/api/models.rs        : ErrorKind, ErrorResponse.            *)
(***************************************************************************)
EXTENDS Naturals, Sequences, FiniteSets

VARIABLES
    teams,      \* ids of the rows of the teams table
    users,      \* rows of the users table, in storage order
    last,       \* the last repository call: its name, arguments and result
    dbconv,     \* the last backend error converted to a DbError
    apiconv,    \* the last error converted to an ErrorResponse
    pools,      \* the r2d2 pools constructed so far, by pool id
    calls,      \* the calls to init_db_connection made so far
    pc,         \* per unit of work: where it is in init_db_connection
    local,      \* per unit of work: the pool bound to the call's `pool`
    gets,       \* per unit of work: the pool.get() calls of its current call
    outcome,    \* per unit of work: what its last init_db_connection returned
    handle      \* per unit of work: the DbConnection it owns

(***************************************************************************)
(* Bounds of the model.                                                    *)
(***************************************************************************)
NumUsers == 2
NumTeams == 2
NumWorkers == 2
MaxCalls == 3
MaxSize == 2

UserIds == 1..NumUsers
TeamIds == 1..NumTeams
Workers == 1..NumWorkers
Conns == 1..MaxSize

usersVars == <<teams, users, last>>
errVars == <<dbconv, apiconv>>
poolVars == <<pools, calls, pc, local, gets, outcome, handle>>
vars == <<teams, users, last, dbconv, apiconv, pools, calls, pc, local, gets,
          outcome, handle>>

(***************************************************************************)
(* Option<T> and Result<T, E>.                                             *)
(***************************************************************************)
None == <<>>
Some(x) == <<x>>

Ok(v) == [tag |-> "Ok", val |-> v]
Err(e) == [tag |-> "Err", err |-> e]

(***************************************************************************)
(* DbError (database/postgres.rs, lines 5-12).                             *)
(***************************************************************************)
ServiceUnavailable == [variant |-> "ServiceUnavailable"]
NotFound == [variant |-> "NotFound"]
ForeignKeyViolation(msg) == [variant |-> "ForeignKeyViolation", msg |-> msg]
UniqueViolation(msg) == [variant |-> "UniqueViolation", msg |-> msg]
Unknown == [variant |-> "Unknown"]

(***************************************************************************)
(* The backend's error values: diesel::result::Error with its              *)
(* DatabaseErrorKind and the constraint name of the error information,     *)
(* and r2d2::Error.                                                        *)
(***************************************************************************)
DieselNotFound == [variant |-> "NotFound"]
DatabaseError(kind, constraint_name) ==
    [variant |-> "DatabaseError", kind |-> kind, constraint_name |-> constraint_name]
DieselOther(variant) == [variant |-> variant]

DatabaseErrorKinds ==
    {"UniqueViolation", "ForeignKeyViolation", "UnableToSendCommand",
     "SerializationFailure", "__Unknown"}
ConstraintNames == {"users_pkey", "users_team_id_fkey"}
OtherDieselVariants ==
    {"InvalidCString", "QueryBuilderError", "DeserializationError",
     "SerializationError", "RollbackTransaction", "AlreadyInTransaction"}

DieselErrors ==
    {DieselNotFound}
    \cup {DatabaseError(k, c) : k \in DatabaseErrorKinds,
                                c \in {None} \cup {Some(n) : n \in ConstraintNames}}
    \cup {DieselOther(v) : v \in OtherDieselVariants}

R2d2Errors == {[message |-> None], [message |-> Some("timed out waiting for connection")]}

(***************************************************************************)
(* impl From<r2d2::Error> for DbError.                                     *)
(***************************************************************************)
From_r2d2_Unknown(error) == Unknown

From_r2d2(error) == ServiceUnavailable

(***************************************************************************)
(* impl From<diesel::result::Error> for DbError.                           *)
(***************************************************************************)
From_diesel_NoKinds(error) ==
    IF error.variant = "NotFound" THEN NotFound ELSE Unknown

From_diesel_KindsUnavailable(error) ==
    IF error.variant = "NotFound" THEN NotFound
    ELSE IF error.variant = "DatabaseError" THEN
        IF error.kind = "ForeignKeyViolation"
        THEN ForeignKeyViolation("An error occured due to a foreign key violation")
        ELSE IF error.kind = "UniqueViolation"
        THEN UniqueViolation("An error occured due to a unique violation")
        ELSE ServiceUnavailable
    ELSE Unknown

From_diesel(error) ==
    IF error.variant = "NotFound" THEN NotFound
    ELSE IF error.variant = "DatabaseError" THEN
        IF error.kind = "ForeignKeyViolation" THEN
            ForeignKeyViolation(
                IF error.constraint_name # None
                THEN "The key " \o error.constraint_name[1] \o " doesn't refer to anything"
                ELSE "An error occured due to a foreign key violation")
        ELSE IF error.kind = "UniqueViolation" THEN
            UniqueViolation(
                IF error.constraint_name # None
                THEN "The field " \o error.constraint_name[1]
                         \o " is already used by another user"
                ELSE "An error occured due to a unique violation")
        ELSE Unknown
    ELSE Unknown

(***************************************************************************)
(* The User record, with the fields database/postgres.rs gives it          *)
(* (lines 117-124), and the users drawn as arguments of create_user.       *)
(***************************************************************************)
Profiles ==
    {[firstname |-> "firstname", lastname |-> "lastname", nickname |-> None,
      email |-> None],
     [firstname |-> "Ada", lastname |-> "Lovelace", nickname |-> Some("ada"),
      email |-> Some("ada@example.org")]}

User(id, team_id, p) ==
    [id |-> id, team_id |-> team_id, firstname |-> p.firstname,
     lastname |-> p.lastname, nickname |-> p.nickname, email |-> p.email]

Users == {User(i, t, p) : i \in UserIds, t \in TeamIds, p \in Profiles}

Rows(table) == {table[i] : i \in 1..Len(table)}

(***************************************************************************)
(* The backend behind a handle: the users table with its primary key on    *)
(* id and its foreign key from team_id to teams.                           *)
(***************************************************************************)
\* INSERT INTO users ... RETURNING *: the unique index on id is checked when
\* the row is inserted, the foreign key once the statement ends.
insert_into_users(table, teamset, user) ==
    IF \E r \in Rows(table) : r.id = user.id
    THEN Err(DatabaseError("UniqueViolation", Some("users_pkey")))
    ELSE IF user.team_id \notin teamset
    THEN Err(DatabaseError("ForeignKeyViolation", Some("users_team_id_fkey")))
    ELSE Ok(user)

\* RunQueryDsl::get_results: every row the filter keeps, in storage order.
get_results(rows) == Ok(rows)

\* RunQueryDsl::get_result: the first row, or Error::NotFound without one.
get_result(rows) ==
    IF rows = <<>> THEN Err(DieselNotFound) ELSE Ok(rows[1])

\* The ? operator: an Err leaves the function, converted by From.
Try(result) ==
    IF result.tag = "Err" THEN Err(From_diesel(result.err)) ELSE result

(***************************************************************************)
(* impl UsersDb for DbConnection.                                          *)
(***************************************************************************)
get_users_AnyTeam(table, team_id) ==
    Try(get_results(table))

get_users(table, team_id) ==
    LET filter(row) == row.team_id = team_id
    IN  Try(get_results(SelectSeq(table, filter)))

get_user_by_id_AnyTeam(table, team_id, user_id) ==
    LET filter(row) == row.id = user_id
    IN  Try(get_result(SelectSeq(table, filter)))

get_user_by_id(table, team_id, user_id) ==
    LET filter(row) == row.team_id = team_id /\ row.id = user_id
    IN  Try(get_result(SelectSeq(table, filter)))

create_user_Defaults(table, teamset, user) ==
    LET r == Try(insert_into_users(table, teamset, user))
    IN  IF r.tag = "Ok" THEN Ok([r.val EXCEPT !.nickname = None]) ELSE r

create_user_AllUnknown(table, teamset, user) ==
    LET r == insert_into_users(table, teamset, user)
    IN  IF r.tag = "Err" THEN Err(Unknown) ELSE r

create_user(table, teamset, user) ==
    Try(insert_into_users(table, teamset, user))

(***************************************************************************)
(* The repository calls as steps on the database.                          *)
(***************************************************************************)
NoCall == [op |-> "none"]

\* test_utils::create_default_team: a team row under a fresh id.
create_default_team(id) ==
    /\ id \notin teams
    /\ teams' = teams \cup {id}
    /\ last' = [op |-> "create_default_team", team_id |-> id]
    /\ UNCHANGED <<users, errVars, poolVars>>

CallGetUsers(team_id) ==
    /\ last' = [op |-> "get_users", team_id |-> team_id,
                result |-> get_users(users, team_id)]
    /\ UNCHANGED <<teams, users, errVars, poolVars>>

CallGetUserById(team_id, user_id) ==
    /\ last' = [op |-> "get_user_by_id", team_id |-> team_id, user_id |-> user_id,
                result |-> get_user_by_id(users, team_id, user_id)]
    /\ UNCHANGED <<teams, users, errVars, poolVars>>

CallCreateUser(user) ==
    LET r == create_user(users, teams, user)
    IN  /\ users' = IF r.tag = "Ok" THEN Append(users, r.val) ELSE users
        /\ last' = [op |-> "create_user", user |-> user, result |-> r]
        /\ UNCHANGED <<teams, errVars, poolVars>>

(***************************************************************************)
(* api/models.rs: ErrorKind, ErrorResponse and the conversions into them.  *)
(***************************************************************************)
ErrorKinds == {"ServiceUnavailable", "Unknown", "NotFound", "Json"}

\* ErrorKind::status_code.
status_code(kind) ==
    CASE kind = "ServiceUnavailable" -> 500
      [] kind = "Unknown" -> 500
      [] kind = "NotFound" -> 404
      [] kind = "Json" -> 400

ErrorResponse(kind, description) == [kind |-> kind, description |-> description]

\* #[serde(rename_all = "SCREAMING_SNAKE_CASE")] on ErrorKind.
Serialize(kind) ==
    CASE kind = "ServiceUnavailable" -> "SERVICE_UNAVAILABLE"
      [] kind = "Unknown" -> "UNKNOWN"
      [] kind = "NotFound" -> "NOT_FOUND"
      [] kind = "Json" -> "JSON"

\* impl From<ErrorResponse> for rouille::Response.
Response(response) ==
    [status_code |-> status_code(response.kind),
     body |-> [kind |-> Serialize(response.kind),
               description |-> response.description]]

\* impl From<DbError> for ErrorResponse: the match has the three arms below
\* and no other; a variant none of them matches gets no response (None).
From_DbError(error) ==
    IF error.variant = "NotFound"
    THEN Some(ErrorResponse("NotFound", "Not found"))
    ELSE IF error.variant = "Unknown"
    THEN Some(ErrorResponse("Unknown", "An internal error occured"))
    ELSE IF error.variant = "ServiceUnavailable"
    THEN Some(ErrorResponse("ServiceUnavailable",
                            "The service is currently unavailable"))
    ELSE None

\* rouille's JsonError, by what its to_string() gives.
JsonErrors ==
    {[display |-> "the body of the request was already extracted"],
     [display |-> "the request didn't have a JSON content type"],
     [display |-> "could not read the body from the request, or could not execute the CGI program"],
     [display |-> "error while parsing the JSON body"]}

\* impl From<JsonError> for ErrorResponse.
From_JsonError(error) == ErrorResponse("Json", error.display)

\* The DbError values the two conversions of database/postgres.rs produce.
DbErrors ==
    {From_diesel(e) : e \in DieselErrors} \cup {From_r2d2(e) : e \in R2d2Errors}

ConvertDiesel(error) ==
    /\ dbconv' = [op |-> "from_diesel", error |-> error,
                  result |-> From_diesel(error)]
    /\ UNCHANGED <<apiconv, usersVars, poolVars>>

ConvertR2d2(error) ==
    /\ dbconv' = [op |-> "from_r2d2", error |-> error,
                  result |-> From_r2d2(error)]
    /\ UNCHANGED <<apiconv, usersVars, poolVars>>

RespondDbError(error) ==
    LET response == From_DbError(error)
    IN  /\ apiconv' = [op |-> "from_db_error", error |-> error,
                       response |-> response,
                       http |-> IF response = None THEN None
                                ELSE Some(Response(response[1]))]
        /\ UNCHANGED <<dbconv, usersVars, poolVars>>

RespondJsonError(error) ==
    LET response == From_JsonError(error)
    IN  /\ apiconv' = [op |-> "from_json_error", error |-> error,
                       response |-> Some(response),
                       http |-> Some(Response(response))]
        /\ UNCHANGED <<dbconv, usersVars, poolVars>>
(***************************************************************************)
(* database/postgres.rs: init_db_connection and the DbConnection handle,   *)
(* called by concurrent units of work.  An r2d2 pool holds its connections *)
(* and is shared by its owners: the binding `pool` of the call that built  *)
(* it and every PooledConnection checked out of it.                        *)
(***************************************************************************)
\* r2d2::Pool::new(manager) when it succeeds: the pool with its connections
\* established and idle, owned by the caller's binding.
new_pool == [conns |-> [c \in Conns |-> "idle"], owners |-> 1]

\* pool.get() when it succeeds: one idle connection leaves the idle list for
\* a PooledConnection, which owns a share of the pool.
check_out_Unmarked(pool, c) == [pool EXCEPT !.owners = @ + 1]

check_out(pool, c) ==
    [pool EXCEPT !.conns[c] = "checked_out", !.owners = @ + 1]

\* Drop of a PooledConnection: the connection goes back to the idle list.
put_back(pool, c) == [pool EXCEPT !.conns[c] = "idle"]

\* Drop of one owner of the pool; the last one closes its connections.
release(pool) ==
    IF pool.owners = 1
    THEN [conns |-> [c \in Conns |-> "closed"], owners |-> 0]
    ELSE [pool EXCEPT !.owners = @ - 1]

\* A unit of work calls init_db_connection(database_url).
Call(w) ==
    /\ pc[w] = "idle"
    /\ calls < MaxCalls
    /\ calls' = calls + 1
    /\ pc' = [pc EXCEPT ![w] = "pool_new"]
    /\ gets' = [gets EXCEPT ![w] = 0]
    /\ outcome' = [outcome EXCEPT ![w] = None]
    /\ UNCHANGED <<pools, local, handle, usersVars, errVars>>

\* let pool = r2d2::Pool::new(manager)?;  the pool is built by this call.
PoolNewOk(w) ==
    /\ pc[w] = "pool_new"
    /\ pools' = Append(pools, new_pool)
    /\ local' = [local EXCEPT ![w] = Len(pools) + 1]
    /\ pc' = [pc EXCEPT ![w] = "pool_get"]
    /\ UNCHANGED <<calls, gets, outcome, handle, usersVars, errVars>>

\* ... or r2d2 gives up establishing the connections, and ? returns the error.
PoolNewErr(w, error) ==
    /\ pc[w] = "pool_new"
    /\ outcome' = [outcome EXCEPT ![w] = Some(Err(From_r2d2(error)))]
    /\ pc' = [pc EXCEPT ![w] = "idle"]
    /\ UNCHANGED <<pools, calls, local, gets, handle, usersVars, errVars>>

\* let connection = pool.get()?; Ok(DbConnection(connection))
\* The binding `pool` is dropped on return.
PoolGetOk(w, c) ==
    /\ pc[w] = "pool_get"
    /\ pools[local[w]].conns[c] = "idle"
    /\ pools' = [pools EXCEPT ![local[w]] = release(check_out(@, c))]
    /\ handle' = [handle EXCEPT ![w] = Some([pool |-> local[w], conn |-> c])]
    /\ outcome' = [outcome EXCEPT ![w] = Some(Ok([pool |-> local[w], conn |-> c]))]
    /\ gets' = [gets EXCEPT ![w] = @ + 1]
    /\ local' = [local EXCEPT ![w] = 0]
    /\ pc' = [pc EXCEPT ![w] = "holding"]
    /\ UNCHANGED <<calls, usersVars, errVars>>

\* ... or the pool's wait for a usable connection expires, and ? returns the
\* error; the binding `pool` is dropped on return.
PoolGetErr(w, error) ==
    /\ pc[w] = "pool_get"
    /\ pools' = [pools EXCEPT ![local[w]] = release(@)]
    /\ outcome' = [outcome EXCEPT ![w] = Some(Err(From_r2d2(error)))]
    /\ gets' = [gets EXCEPT ![w] = @ + 1]
    /\ local' = [local EXCEPT ![w] = 0]
    /\ pc' = [pc EXCEPT ![w] = "idle"]
    /\ UNCHANGED <<calls, handle, usersVars, errVars>>

\* The DbConnection goes out of scope: its PooledConnection is dropped.
DropHandle(w) ==
    /\ pc[w] = "holding"
    /\ LET h == handle[w][1]
       IN  pools' = [pools EXCEPT ![h.pool] = release(put_back(@, h.conn))]
    /\ handle' = [handle EXCEPT ![w] = None]
    /\ pc' = [pc EXCEPT ![w] = "idle"]
    /\ UNCHANGED <<calls, local, gets, outcome, usersVars, errVars>>

PoolNew(w) == PoolNewOk(w) \/ \E e \in R2d2Errors : PoolNewErr(w, e)
PoolGet(w) == (\E c \in Conns : PoolGetOk(w, c)) \/ \E e \in R2d2Errors : PoolGetErr(w, e)

(***************************************************************************)
(* The specifications: the repository on one handle, the two error         *)
(* conversions on the errors drawn from the backend's, and the units of    *)
(* work acquiring and dropping handles.                                    *)
(***************************************************************************)
DatabaseEmpty ==
    /\ teams = {}
    /\ users = <<>>
    /\ last = NoCall

NothingConverted ==
    /\ dbconv = NoCall
    /\ apiconv = NoCall

NoPool ==
    /\ pools = <<>>
    /\ calls = 0
    /\ pc = [w \in Workers |-> "idle"]
    /\ local = [w \in Workers |-> 0]
    /\ gets = [w \in Workers |-> 0]
    /\ outcome = [w \in Workers |-> None]
    /\ handle = [w \in Workers |-> None]

Init == DatabaseEmpty /\ NothingConverted /\ NoPool

NextUsers ==
    \/ \E id \in TeamIds : create_default_team(id)
    \/ \E t \in TeamIds : CallGetUsers(t)
    \/ \E t \in TeamIds, u \in UserIds : CallGetUserById(t, u)
    \/ \E u \in Users : CallCreateUser(u)

NextErr ==
    \/ \E e \in DieselErrors : ConvertDiesel(e)
    \/ \E e \in R2d2Errors : ConvertR2d2(e)
    \/ \E e \in DbErrors : RespondDbError(e)
    \/ \E e \in JsonErrors : RespondJsonError(e)

NextPool ==
    \/ \E w \in Workers : Call(w)
    \/ \E w \in Workers : PoolNewOk(w)
    \/ \E w \in Workers, e \in R2d2Errors : PoolNewErr(w, e)
    \/ \E w \in Workers, c \in Conns : PoolGetOk(w, c)
    \/ \E w \in Workers, e \in R2d2Errors : PoolGetErr(w, e)
    \/ \E w \in Workers : DropHandle(w)

SpecUsers == Init /\ [][NextUsers]_vars
SpecErr == Init /\ [][NextErr]_vars
SpecPool == Init /\ [][NextPool]_vars

\* Both calls of init_db_connection return within r2d2's connection timeout,
\* and a thread in the call keeps running: each step of a call is taken.
FairSpecPool ==
    SpecPool /\ \A w \in Workers : WF_vars(PoolNew(w)) /\ WF_vars(PoolGet(w))
(***************************************************************************)
(* Properties of the repository calls.                                     *)
(***************************************************************************)
Stored(id) == \E r \in Rows(users) : r.id = id

FkMessages ==
    {"The key users_team_id_fkey doesn't refer to anything",
     "An error occured due to a foreign key violation"}

\* C1: get_user_by_id(team_id, user_id) returns Ok(user) only for a stored user
\* with that id and that team_id, and fails with DbError::NotFound in every
\* other case, also when the id is stored under another team.
C1_TenantIsolation ==
    last.op = "get_user_by_id" =>
        LET matching == {r \in Rows(users) :
                            r.id = last.user_id /\ r.team_id = last.team_id}
        IN  /\ last.result.tag = "Ok" => last.result.val \in matching
            /\ matching # {} => last.result.tag = "Ok"
            /\ matching = {} => last.result = Err(NotFound)

C1_Witness ==
    /\ last.op = "get_user_by_id"
    /\ \E r \in Rows(users) : r.id = last.user_id /\ r.team_id # last.team_id
    /\ last.result = Err(NotFound)

\* C2: get_users(team_id) returns Ok with exactly the stored users of that
\* team, each once and none of another team, and Ok with the empty sequence
\* when the team has no stored user.
C2_GetUsersOfTeam ==
    last.op = "get_users" =>
        LET ofTeam == {r \in Rows(users) : r.team_id = last.team_id}
        IN  /\ last.result.tag = "Ok"
            /\ Rows(last.result.val) = ofTeam
            /\ Len(last.result.val) = Cardinality(ofTeam)
            /\ ofTeam = {} => last.result = Ok(<<>>)

C2_Witness ==
    /\ last.op = "get_users"
    /\ last.result.tag = "Ok"
    /\ last.result.val # <<>>
    /\ \E r \in Rows(users) : r.team_id # last.team_id

\* C3: a create_user(u) step with u's team existing and u's id not yet stored
\* returns Ok(u), and get_user_by_id(u.team_id, u.id) on the database it
\* leaves returns Ok(u).
C3_RoundTrip ==
    [][(/\ last'.op = "create_user"
        /\ last'.user.team_id \in teams
        /\ ~Stored(last'.user.id))
       => (/\ last'.result = Ok(last'.user)
           /\ get_user_by_id(users', last'.user.team_id, last'.user.id)
                  = Ok(last'.user))]_vars

C3_Witness ==
    /\ last.op = "create_user"
    /\ last.user.nickname # None
    /\ last.result = Ok(last.user)
    /\ Len(users) > 1
    /\ users[Len(users)] = last.user

C6_TotalResponse ==
    apiconv.op = "from_db_error" =>
        LET v == apiconv.error.variant
            kind == IF v \in {"NotFound", "ServiceUnavailable"} THEN v ELSE "Unknown"
        IN  /\ apiconv.response # None
            /\ apiconv.response[1].kind = kind
            /\ apiconv.http[1].status_code = (IF v = "NotFound" THEN 404 ELSE 500)
            /\ v = "NotFound" => apiconv.response[1].description = "Not found"

\* C7: every backend error converts to exactly one DbError: a no-row error
\* to NotFound, a database error of kind foreign-key violation to
\* ForeignKeyViolation, of kind unique violation to UniqueViolation, every
\* other database error and every other diesel error to Unknown, every pool
\* error to ServiceUnavailable.
C7_TotalClassification ==
    /\ dbconv.op = "from_diesel" =>
        LET e == dbconv.error
            variant ==
                IF e.variant = "NotFound" THEN "NotFound"
                ELSE IF e.variant = "DatabaseError"
                        /\ e.kind \in {"ForeignKeyViolation", "UniqueViolation"}
                THEN e.kind
                ELSE "Unknown"
        IN  /\ dbconv.result.variant = variant
            /\ variant \in {"NotFound", "Unknown"} => dbconv.result = [variant |-> variant]
            /\ variant \notin {"NotFound", "Unknown"} =>
                   /\ DOMAIN dbconv.result = {"variant", "msg"}
                   /\ dbconv.result.msg # ""
    /\ dbconv.op = "from_r2d2" => dbconv.result = ServiceUnavailable

C7_Witness ==
    /\ dbconv.op = "from_diesel"
    /\ dbconv.error.variant = "DatabaseError"
    /\ dbconv.error.kind = "UnableToSendCommand"
    /\ dbconv.result = Unknown

(***************************************************************************)
(* Properties of the pool and its handles.                                 *)
(***************************************************************************)
PoolIds == 1..Len(pools)

Owners(p, c) == {w \in Workers : handle[w] = Some([pool |-> p, conn |-> c])}

\* C8: across any sequence of init_db_connection calls at most one pool is
\* ever constructed.
C8_PoolBuiltOnce == Len(pools) <= 1

\* C9: every call of init_db_connection returns, with Ok(handle) or with
\* Err(DbError::ServiceUnavailable) and nothing else, after at most one
\* pool.get().
C9_InitReturns ==
    /\ [](\A w \in Workers :
            /\ gets[w] <= 1
            /\ outcome[w] # None =>
                   \/ outcome[w][1].tag = "Ok"
                   \/ outcome[w][1] = Err(ServiceUnavailable))
    /\ \A w \in Workers : (pc[w] = "pool_new") ~> (outcome[w] # None)

C9_Witness ==
    \E w1, w2 \in Workers :
        /\ outcome[w1] = Some(Err(ServiceUnavailable))
        /\ gets[w1] = 1
        /\ outcome[w2] # None
        /\ outcome[w2][1].tag = "Ok"
        /\ pc[w2] = "holding"

\* C10: a pooled connection is checked out exactly while one live handle
\* owns it, never two, and a pool is owned exactly by the calls and handles
\* that refer to it: once they are gone its connections are closed.
C10_ExclusiveHandles ==
    \A p \in PoolIds :
        /\ \A c \in Conns :
            /\ Cardinality(Owners(p, c)) <= 1
            /\ pools[p].conns[c] = "checked_out" <=> Owners(p, c) # {}
        /\ pools[p].owners =
               Cardinality({w \in Workers : local[w] = p})
               + Cardinality({w \in Workers :
                                handle[w] # None /\ handle[w][1].pool = p})
        /\ pools[p].owners = 0 => \A c \in Conns : pools[p].conns[c] = "closed"

C10_Witness ==
    /\ \E w1, w2 \in Workers :
        /\ w1 # w2
        /\ pc[w1] = "holding"
        /\ pc[w2] = "holding"
    /\ \E p \in PoolIds : pools[p].owners = 0
====
